---- MODULE Spec2Model ----
(***************************************************************************)
(* Model of network_6.py: a Streamlit application that turns a parent /    *)
(* child table into a directed attributed graph (build_graph), projects    *)
(* it on a focal node (filter_graph) and reports dashboard metrics (main). *)
(*                                                                         *)
(* A table (pandas DataFrame) is a sequence of rows; a row is a function   *)
(* from the column names to a cell, NaN standing for a null cell.  A graph *)
(* (networkx DiGraph) is a record of a node set, a set of ordered pairs    *)
(* and a per-node attribute dictionary (a function from the keys present   *)
(* to their values).                                                       *)
(***************************************************************************)
EXTENDS Integers, Sequences, FiniteSets, TLC

VARIABLES
    pc,               \* which program runs and where it stands
    has_df,           \* "df" in st.session_state
    session_df,       \* st.session_state.df
    uploaded_file,    \* truthiness of the file_uploader value of the last run
    df,               \* main's local df (the table snapshot of the run)
    selected_node,    \* value of the "Select a node" selectbox
    view_mode,        \* value of the "Visualization mode" radio
    expand_neighbors, \* value of the 2-hop button
    G,                \* graph built by build_graph
    partition,        \* community_louvain.best_partition(G.to_undirected())
    H,                \* graph returned by filter_graph
    outcome,          \* "none", "ok" or the exception that ended the run
    diameter_md       \* the diameter line of the dashboard

vars == <<pc, has_df, session_df, uploaded_file, df, selected_node, view_mode,
          expand_neighbors, G, partition, H, outcome, diameter_md>>

---------------------------------------------------------------------------
(* Bounds and input alphabets *)

\* largest number of rows of a table
MaxRows == 2

\* node identifiers of the tables given to build_graph and filter_graph
Ids == {"A", "B", "C"}

\* non-null cells of the extra column
ExtraVals == {"x", "y"}

PARENT_COL == "nome_parent"
CHILD_COL == "nome_nodo"

\* the one extra attribute column of the modelled tables
EXTRA_COL == "tipo"

Columns == {PARENT_COL, CHILD_COL, EXTRA_COL}

\* a null cell (NaN / None)
NaN == "NaN"

\* selectbox value when there is no option
None == "None"

FOCUS == "Focus on node & neighbors"
BETWEENNESS == "Betweenness Centrality"
ALL_COMM == "All Communities"
SEL_COMM == "Selected Node's Community"

\* the options of the view_mode radio
ViewModes == {FOCUS, BETWEENNESS, ALL_COMM, SEL_COMM}

MkRow(p, c, e) == [k \in Columns |-> IF k = PARENT_COL THEN p ELSE IF k = CHILD_COL THEN c ELSE e]

\* rows with parent and child cells in ps and cs and the extra cell in es
RowsOver(ps, cs, es) == {MkRow(p, c, e) : p \in ps, c \in cs, e \in es}

SeqsUpTo(S, n) == UNION {[1..k -> S] : k \in 0..n}

---------------------------------------------------------------------------
(* networkx DiGraph *)

EmptyDict == [k \in {} |-> NaN]

EmptyGraph == [nodes |-> {}, edges |-> {}, attrs |-> [n \in {} |-> EmptyDict]]

successors(g, n) == {e[2] : e \in {d \in g.edges : d[1] = n}}

predecessors(g, n) == {e[1] : e \in {d \in g.edges : d[2] = n}}

\* update that keeps the value already stored under a key
update_keep_first(m, a) == [k \in DOMAIN m \cup DOMAIN a |-> IF k \in DOMAIN m THEN m[k] ELSE a[k]]

\* dict.update
update(m, a) == [k \in DOMAIN m \cup DOMAIN a |-> IF k \in DOMAIN a THEN a[k] ELSE m[k]]

\* row.dropna().to_dict(): every non-null cell of the row, under its column name
dropna_to_dict(row) == [k \in {c \in DOMAIN row : row[c] # NaN} |-> row[k]]

\* add_edges_from that stops one row short
add_edges_from_skip_last(t) ==
    LET es == {<<t[i][PARENT_COL], t[i][CHILD_COL]>> : i \in 1..(Len(t) - 1)}
        ns == {e[1] : e \in es} \cup {e[2] : e \in es}
    IN [nodes |-> ns, edges |-> es, attrs |-> [n \in ns |-> EmptyDict]]

\* g.add_edges_from(df[[parent, child]].values)
add_edges_from(t) ==
    LET es == {<<t[i][PARENT_COL], t[i][CHILD_COL]>> : i \in 1..Len(t)}
        ns == {e[1] : e \in es} \cup {e[2] : e \in es}
    IN [nodes |-> ns, edges |-> es, attrs |-> [n \in ns |-> EmptyDict]]

\* the loop of build_graph over the first k rows
RECURSIVE update_rows(_, _, _)
update_rows(g, t, k) ==
    IF k = 0 THEN g
    ELSE LET prev == update_rows(g, t, k - 1)
             row == t[k]
         IN [prev EXCEPT !.attrs[row[CHILD_COL]] = update(@, dropna_to_dict(row))]

build_graph(t) == update_rows(add_edges_from(t), t, Len(t))

\* subgraph that keeps every edge touching a kept node
subgraph_touching(g, ns) ==
    LET keep == ns \cap g.nodes
    IN [nodes |-> keep,
        edges |-> {e \in g.edges : e[1] \in keep \/ e[2] \in keep},
        attrs |-> [n \in keep |-> g.attrs[n]]]

\* G.subgraph(nodes).copy(): the nodes of g among ns, the edges of g between
\* them, and their attribute dictionaries
subgraph(g, ns) ==
    LET keep == ns \cap g.nodes
    IN [nodes |-> keep,
        edges |-> {e \in g.edges : e[1] \in keep /\ e[2] \in keep},
        attrs |-> [n \in keep |-> g.attrs[n]]]

\* what a call gives: a value, or the exception it raised
Return(v) == [raised |-> "no", value |-> v]

Raise(exc) == [raised |-> exc, value |-> EmptyGraph]

\* focus_nodes whose second hop follows outgoing edges only
focus_nodes_directed(g, selected, expand) ==
    LET neighbors == successors(g, selected) \cup predecessors(g, selected)
        second_neighbors == UNION {successors(g, n) : n \in neighbors}
    IN IF expand THEN {selected} \cup neighbors \cup second_neighbors
       ELSE {selected} \cup neighbors

\* nodes shown in FOCUS mode (G.successors / G.predecessors raise NetworkXError
\* for a node that is not in the graph: filter_graph checks that before)
focus_nodes(g, selected, expand) ==
    LET neighbors == successors(g, selected) \cup predecessors(g, selected)
        second_neighbors == UNION {successors(g, n) \cup predecessors(g, n) : n \in neighbors}
    IN IF expand THEN {selected} \cup neighbors \cup second_neighbors
       ELSE {selected} \cup neighbors

\* community_nodes comparing with <= instead of ==
community_nodes_upto(g, selected, part) == {n \in g.nodes : part[n] <= part[selected]}

\* nodes shown in SEL_COMM mode
community_nodes(g, selected, part) == {n \in g.nodes : part[n] = part[selected]}

\* filter_graph that looks the focal node up without failing
filter_graph_unchecked(g, selected, mode, part, expand) ==
    IF mode = FOCUS
    THEN Return(subgraph(g, focus_nodes(g, selected, expand)))
    ELSE IF mode = SEL_COMM
    THEN IF selected \notin DOMAIN part \/ g.nodes \ DOMAIN part # {} THEN Return(subgraph(g, {}))
         ELSE Return(subgraph(g, community_nodes(g, selected, part)))
    ELSE Return(g)

filter_graph(g, selected, mode, part, expand) ==
    IF mode = FOCUS
    THEN IF selected \notin g.nodes THEN Raise("NetworkXError")
         ELSE Return(subgraph(g, focus_nodes(g, selected, expand)))
    ELSE IF mode = SEL_COMM
    THEN IF selected \notin DOMAIN part \/ g.nodes \ DOMAIN part # {} THEN Raise("KeyError")
         ELSE Return(subgraph(g, community_nodes(g, selected, part)))
    ELSE Return(g)

\* community_louvain.best_partition: some assignment of a community id to every
\* node, the ids being 0..k-1 for the k communities found
Partitions(g) ==
    {p \in [g.nodes -> 0..(Cardinality(g.nodes) - 1)] :
        \A c \in 0..(Cardinality(g.nodes) - 1) :
            (\E n \in g.nodes : p[n] > c) => (\E n \in g.nodes : p[n] = c)}

---------------------------------------------------------------------------
(* Dashboard: nx.diameter(G.to_undirected()) inside try / except Exception *)

\* neighbours in G.to_undirected()
adj(g, n) == successors(g, n) \cup predecessors(g, n)

\* nodes within k undirected hops of n
RECURSIVE ball(_, _, _)
ball(g, n, k) ==
    IF k = 0 THEN {n}
    ELSE LET b == ball(g, n, k - 1) IN b \cup UNION {adj(g, m) : m \in b}

\* nx.eccentricity of n in a graph where n reaches every node
eccentricity(g, n) ==
    CHOOSE k \in 0..Cardinality(g.nodes) :
        /\ ball(g, n, k) = g.nodes
        /\ \A j \in 0..(k - 1) : ball(g, n, j) # g.nodes

Max(S) == CHOOSE x \in S : \A y \in S : y <= x

\* nodes within k hops of n along outgoing edges
RECURSIVE ball_out(_, _, _)
ball_out(g, n, k) ==
    IF k = 0 THEN {n}
    ELSE LET b == ball_out(g, n, k - 1) IN b \cup UNION {successors(g, m) : m \in b}

\* nx.diameter on the directed graph, without to_undirected()
nx_diameter_directed(g) ==
    IF \E n \in g.nodes : ball_out(g, n, Cardinality(g.nodes)) # g.nodes
    THEN [raised |-> "NetworkXError", value |-> 0]
    ELSE IF g.nodes = {} THEN [raised |-> "ValueError", value |-> 0]
    ELSE [raised |-> "no",
          value |-> Max({CHOOSE k \in 0..Cardinality(g.nodes) :
                            /\ ball_out(g, n, k) = g.nodes
                            /\ \A j \in 0..(k - 1) : ball_out(g, n, j) # g.nodes
                         : n \in g.nodes})]

\* nx.diameter: eccentricity raises NetworkXError when some node does not reach
\* every node; max() of no eccentricity raises ValueError
nx_diameter(g) ==
    IF \E n \in g.nodes : ball(g, n, Cardinality(g.nodes)) # g.nodes
    THEN [raised |-> "NetworkXError", value |-> 0]
    ELSE IF g.nodes = {} THEN [raised |-> "ValueError", value |-> 0]
    ELSE [raised |-> "no", value |-> Max({eccentricity(g, n) : n \in g.nodes})]

\* the dashboard line: the number, or n/d when the computation raised
NotComputable == [computable |-> FALSE, value |-> 0]

diameter_line(g) ==
    LET d == nx_diameter(g)
    IN IF d.raised = "no" THEN [computable |-> TRUE, value |-> d.value] ELSE NotComputable

---------------------------------------------------------------------------
(* build_graph applied to every table of at most MaxRows rows *)

BuildInit ==
    /\ pc = "table"
    /\ df \in SeqsUpTo(RowsOver(Ids, Ids, ExtraVals \cup {NaN}), MaxRows)
    /\ has_df = FALSE
    /\ session_df = <<>>
    /\ uploaded_file = FALSE
    /\ selected_node = None
    /\ view_mode = FOCUS
    /\ expand_neighbors = FALSE
    /\ G = EmptyGraph
    /\ partition = <<>>
    /\ H = EmptyGraph
    /\ outcome = "none"
    /\ diameter_md = NotComputable

CallBuildGraph ==
    /\ pc = "table"
    /\ pc' = "built"
    /\ G' = build_graph(df)
    /\ outcome' = "ok"
    /\ UNCHANGED <<has_df, session_df, uploaded_file, df, selected_node, view_mode,
                   expand_neighbors, partition, H, diameter_md>>

BuildNext == CallBuildGraph

SpecBuild == BuildInit /\ [][BuildNext]_vars

---------------------------------------------------------------------------
(* filter_graph and the diameter line applied to every graph that build_graph *)
(* gives for a table of at most MaxRows rows                                  *)

\* a mode string that is none of the four radio options
OTHER_MODE == "Other"

ViewInit ==
    /\ pc = "graph"
    /\ df \in SeqsUpTo(RowsOver(Ids, Ids, {NaN}), MaxRows)
    /\ G = build_graph(df)
    /\ has_df = FALSE
    /\ session_df = <<>>
    /\ uploaded_file = FALSE
    /\ selected_node = None
    /\ view_mode = FOCUS
    /\ expand_neighbors = FALSE
    /\ partition = <<>>
    /\ H = EmptyGraph
    /\ outcome = "none"
    /\ diameter_md = NotComputable

CallFilterGraph ==
    /\ pc = "graph"
    /\ \E selected \in Ids, mode \in ViewModes \cup {OTHER_MODE},
          part \in Partitions(G), expand \in BOOLEAN :
          LET r == filter_graph(G, selected, mode, part, expand)
          IN /\ selected_node' = selected
             /\ view_mode' = mode
             /\ partition' = part
             /\ expand_neighbors' = expand
             /\ H' = r.value
             /\ outcome' = IF r.raised = "no" THEN "ok" ELSE r.raised
    /\ pc' = "filtered"
    /\ UNCHANGED <<has_df, session_df, uploaded_file, df, G, diameter_md>>

CallDiameter ==
    /\ pc = "graph"
    /\ pc' = "measured"
    /\ diameter_md' = diameter_line(G)
    /\ outcome' = "ok"
    /\ UNCHANGED <<has_df, session_df, uploaded_file, df, selected_node, view_mode,
                   expand_neighbors, G, partition, H>>

ViewNext == CallFilterGraph \/ CallDiameter

SpecView == ViewInit /\ [][ViewNext]_vars

---------------------------------------------------------------------------
(* The application: one action per run of main, by what the user did *)

\* text typed in the extra-attribute input of the sidebar ("" when left empty)
ExtraTexts == {"", "x"}

\* node identifiers that occur in the application's data file and text inputs
AppIds == {"A", "B"}

\* text typed in the parent and child inputs ("" when left empty)
NameTexts == AppIds \cup {""}

\* what pd.read_excel can give: rows whose parent or child cell may be null
RawTables == SeqsUpTo(RowsOver(AppIds \cup {NaN}, AppIds \cup {NaN}, {"x", NaN}), MaxRows)

\* df.dropna(subset=[parent, child]); astype(str) leaves the string cells as
\* they are
RECURSIVE load_data(_)
load_data(raw) ==
    IF raw = <<>> THEN <<>>
    ELSE LET rest == load_data(Tail(raw))
         IN IF Head(raw)[PARENT_COL] = NaN \/ Head(raw)[CHILD_COL] = NaN
            THEN rest ELSE <<Head(raw)>> \o rest

\* number of parameters of load_data
LOAD_DATA_PARAMS == 3

\* number of arguments of the call load_data(DATA_FILE, PARENT_COL, CHILD_COL)
INITIAL_CALL_ARGS == 3

\* number of arguments of the call
\* load_data(uploaded_file, DATA_FILE, PARENT_COL, CHILD_COL)
UPLOAD_CALL_ARGS == 4

\* a Python call binds its positional arguments to the parameters, and raises
\* TypeError when there are more arguments than parameters
call_load_data(nargs, raw) ==
    IF nargs # LOAD_DATA_PARAMS THEN [raised |-> "TypeError", value |-> <<>>]
    ELSE [raised |-> "no", value |-> load_data(raw)]

\* the tables load_data(DATA_FILE, ...) can return
DataFileTables == {call_load_data(INITIAL_CALL_ARGS, raw).value : raw \in RawTables}

\* st.session_state.df after lines 131-132
SessionTables == IF has_df THEN {session_df} ELSE DataFileTables

\* the sidebar's guard: add_btn and nome_parent and nome_nodo
add_guard(add_btn, nome_parent, nome_nodo) == add_btn /\ nome_parent # "" /\ nome_nodo # ""

\* new_row, as pd.concat aligns it with the table's columns: the extra cell
\* is null when its text input was left empty
new_row(nome_parent, nome_nodo, extra) ==
    MkRow(nome_parent, nome_nodo, IF extra # "" THEN extra ELSE NaN)

\* pd.concat([st.session_state.df, pd.DataFrame([new_row])], ignore_index=True)
concat(t, row) == Append(t, row)

\* local df read again from the session after the sidebar ran
local_df_reread(at_line_136, session_now) == session_now

\* main's local df at line 193: bound at line 136, before the sidebar's
\* st.session_state.df = pd.concat(...) rebinds the session entry
local_df(at_line_136, session_now) == at_line_136

\* sorted(pd.unique(df[[PARENT_COL, CHILD_COL]].values.ravel("K"))), as a set
all_names(t) == {t[i][PARENT_COL] : i \in 1..Len(t)} \cup {t[i][CHILD_COL] : i \in 1..Len(t)}

\* selectbox that may have nothing selected
selectbox_optional(options) == options \cup {None}

\* st.selectbox("Select a node:", all_names): one of the options, None
\* without options
selectbox(options) == IF options = {} THEN {None} ELSE options

\* expand_neighbors: the button exists in FOCUS mode only
expand_inputs(mode) == IF mode = FOCUS THEN BOOLEAN ELSE {FALSE}

\* lines 156-220 of main on the snapshot at_line_136 of the session table,
\* the session table being session_now when they run
Display(at_line_136, session_now) ==
    \E mode \in ViewModes :
    \E selected \in selectbox(all_names(at_line_136)), expand \in expand_inputs(mode) :
        LET t == local_df(at_line_136, session_now)
            g == build_graph(t)
        IN \E part \in Partitions(g) :
            LET r == filter_graph(g, selected, mode, part, expand)
            IN /\ df' = t
               /\ selected_node' = selected
               /\ view_mode' = mode
               /\ expand_neighbors' = expand
               /\ G' = g
               /\ partition' = part
               /\ H' = r.value
               /\ outcome' = IF r.raised = "no" THEN "ok" ELSE r.raised
               /\ diameter_md' = IF r.raised = "no" THEN diameter_line(g) ELSE NotComputable

\* a run with no file in the uploader and the sidebar's guard false
MainRerun ==
    /\ pc = "app"
    /\ {i \in BOOLEAN \X NameTexts \X NameTexts : ~add_guard(i[1], i[2], i[3])} # {}
    /\ \E t \in SessionTables :
          /\ session_df' = t
          /\ Display(t, t)
    /\ has_df' = TRUE
    /\ uploaded_file' = FALSE
    /\ UNCHANGED pc

\* a run with no file in the uploader in which a row is appended
MainAddRow ==
    /\ pc = "app"
    /\ \E add_btn \in BOOLEAN, nome_parent \in NameTexts, nome_nodo \in NameTexts,
          extra \in ExtraTexts, t \in SessionTables :
          /\ add_guard(add_btn, nome_parent, nome_nodo)
          /\ Len(t) < MaxRows
          /\ session_df' = concat(t, new_row(nome_parent, nome_nodo, extra))
          /\ Display(t, session_df')
    /\ has_df' = TRUE
    /\ uploaded_file' = FALSE
    /\ UNCHANGED pc

\* contents of the file in the uploader
UploadedFiles == SeqsUpTo(RowsOver(AppIds, AppIds, {NaN}), 1)

\* a run with a file in the uploader: line 134 raises before anything is shown
MainUpload ==
    /\ pc = "app"
    /\ \E t \in SessionTables, raw \in UploadedFiles :
          LET r == call_load_data(UPLOAD_CALL_ARGS, raw)
          IN /\ session_df' = IF r.raised = "no" THEN r.value ELSE t
             /\ IF r.raised = "no"
                THEN Display(r.value, r.value)
                ELSE /\ outcome' = r.raised
                     /\ df' = <<>>
                     /\ selected_node' = None
                     /\ view_mode' = FOCUS
                     /\ expand_neighbors' = FALSE
                     /\ G' = EmptyGraph
                     /\ partition' = <<>>
                     /\ H' = EmptyGraph
                     /\ diameter_md' = NotComputable
    /\ has_df' = TRUE
    /\ uploaded_file' = TRUE
    /\ UNCHANGED pc

Init ==
    /\ pc = "app"
    /\ has_df = FALSE
    /\ session_df = <<>>
    /\ uploaded_file = FALSE
    /\ df = <<>>
    /\ selected_node = None
    /\ view_mode = FOCUS
    /\ expand_neighbors = FALSE
    /\ G = EmptyGraph
    /\ partition = <<>>
    /\ H = EmptyGraph
    /\ outcome = "none"
    /\ diameter_md = NotComputable

Next == MainRerun \/ MainAddRow \/ MainUpload

Spec == Init /\ [][Next]_vars

---------------------------------------------------------------------------
(* Properties of build_graph, under SpecBuild *)

\* the rows of t whose child is n and whose cell in column k is not null
RowsWriting(t, n, k) == {i \in 1..Len(t) : t[i][CHILD_COL] = n /\ t[i][k] # NaN}

\* the ordered (parent, child) pairs of the rows of t
PairsOf(t) == {<<t[i][PARENT_COL], t[i][CHILD_COL]>> : i \in 1..Len(t)}

\* C1: build_graph gives one edge per distinct ordered (parent, child) pair of
\* the rows, however often the pair is repeated, and its nodes are exactly
\* the ids seen as parent or child.
C1_OneEdgePerDistinctPair ==
    pc = "built" =>
        /\ \A p \in Ids, c \in Ids :
              <<p, c>> \in G.edges <=>
                  \E i \in 1..Len(df) : df[i][PARENT_COL] = p /\ df[i][CHILD_COL] = c
        /\ G.edges \subseteq Ids \X Ids
        /\ Cardinality(G.edges) = Cardinality(PairsOf(df))
        /\ \A n \in Ids :
              n \in G.nodes <=>
                  \E i \in 1..Len(df) : df[i][PARENT_COL] = n \/ df[i][CHILD_COL] = n
        /\ G.nodes \subseteq Ids
        /\ DOMAIN G.attrs = G.nodes

\* two rows with the same pair X -> Y gave 1 edge and 2 nodes
C1_Witness ==
    /\ pc = "built"
    /\ Len(df) = 2
    /\ df[1][PARENT_COL] = df[2][PARENT_COL]
    /\ df[1][CHILD_COL] = df[2][CHILD_COL]
    /\ df[1][PARENT_COL] # df[1][CHILD_COL]
    /\ Cardinality(G.edges) = 1
    /\ Cardinality(G.nodes) = 2

\* the value the rows of t leave under key k of node n: that of the last row
\* with child n and a non-null cell in column k
LastWritten(t, n, k) == t[Max(RowsWriting(t, n, k))][k]

\* C6 as stated: each node's attribute mapping holds the extra columns only
\* (not the parent id and child id columns), each with the last non-null
\* value of the rows in which the node is the child.
C6_OnlyExtraAttributes ==
    pc = "built" =>
        \A n \in G.nodes :
            /\ DOMAIN G.attrs[n] \subseteq Columns \ {PARENT_COL, CHILD_COL}
            /\ \A k \in Columns \ {PARENT_COL, CHILD_COL} :
                  IF RowsWriting(df, n, k) = {} THEN k \notin DOMAIN G.attrs[n]
                  ELSE k \in DOMAIN G.attrs[n] /\ G.attrs[n][k] = LastWritten(df, n, k)

\* C6, amended: each node's attribute mapping is the merge, in row order, of
\* every non-null cell (the parent id and child id cells included) of the
\* rows in which the node is the child, a later row overwriting an earlier
\* one under the same column name; a node that is never a child has none.
C6_MergeOfAllNonNullCells ==
    pc = "built" =>
        \A n \in G.nodes :
            /\ DOMAIN G.attrs[n] \subseteq Columns
            /\ \A k \in Columns :
                  IF RowsWriting(df, n, k) = {} THEN k \notin DOMAIN G.attrs[n]
                  ELSE k \in DOMAIN G.attrs[n] /\ G.attrs[n][k] = LastWritten(df, n, k)
            /\ (\A i \in 1..Len(df) : df[i][CHILD_COL] # n) => G.attrs[n] = EmptyDict

\* a later row overwrote the extra attribute and the parent id that an
\* earlier row had written on the same child
C6_Witness ==
    /\ pc = "built"
    /\ Len(df) = 2
    /\ df[1][CHILD_COL] = df[2][CHILD_COL]
    /\ df[1][PARENT_COL] # df[2][PARENT_COL]
    /\ df[1][EXTRA_COL] = "x"
    /\ df[2][EXTRA_COL] = "y"
    /\ G.attrs[df[2][CHILD_COL]][EXTRA_COL] = "y"
    /\ G.attrs[df[2][CHILD_COL]][PARENT_COL] = df[2][PARENT_COL]

---------------------------------------------------------------------------
(* Properties of filter_graph and of the diameter line, under SpecView *)

Errors == {"NetworkXError", "KeyError"}

\* C2 as stated: in every mode, a focal node that is not in the graph makes
\* filter_graph fail and return no subgraph.
C2_UnknownNodeFailsInEveryMode ==
    (pc = "filtered" /\ selected_node \notin G.nodes) =>
        (outcome \in Errors /\ H = EmptyGraph)

\* C2, amended: with a focal node that is not in the graph (and a partition of
\* the graph's nodes), filter_graph fails and returns no subgraph in the modes
\* FOCUS (NetworkXError) and SEL_COMM (KeyError); in every other mode it does
\* not fail and returns the whole graph.
C2_UnknownNodeFailsInFocalModes ==
    (pc = "filtered" /\ selected_node \notin G.nodes) =>
        /\ view_mode = FOCUS => (outcome = "NetworkXError" /\ H = EmptyGraph)
        /\ view_mode = SEL_COMM => (outcome = "KeyError" /\ H = EmptyGraph)
        /\ view_mode \notin {FOCUS, SEL_COMM} => (outcome = "ok" /\ H = G)

\* filter_graph was given a non-empty graph and a focal node outside it in
\* SEL_COMM mode, and failed
C2_Witness ==
    /\ pc = "filtered"
    /\ G.nodes # {}
    /\ selected_node \notin G.nodes
    /\ view_mode = SEL_COMM
    /\ outcome = "KeyError"

\* C3: with a focal node of the graph, in every mode, the graph returned has
\* as edges exactly the edges of the input graph with both endpoints among
\* the returned nodes (which are nodes of the input graph, with their
\* attributes), and the input graph is still the graph built from the table.
C3_InducedSubgraphInputUntouched ==
    (pc = "filtered" /\ selected_node \in G.nodes) =>
        /\ outcome = "ok"
        /\ H.nodes \subseteq G.nodes
        /\ H.edges = {e \in G.edges : e[1] \in H.nodes /\ e[2] \in H.nodes}
        /\ \A n \in H.nodes : H.attrs[n] = G.attrs[n]
        /\ G.nodes = {df[i][PARENT_COL] : i \in 1..Len(df)} \cup {df[i][CHILD_COL] : i \in 1..Len(df)}
        /\ G.edges = PairsOf(df)
        /\ \A n \in G.nodes : \A k \in DOMAIN G.attrs[n] : G.attrs[n][k] = LastWritten(df, n, k)

\* a proper projection: some edge of the graph was kept, and an edge with an
\* endpoint in the visible set was left out
C3_Witness ==
    /\ pc = "filtered"
    /\ selected_node \in G.nodes
    /\ outcome = "ok"
    /\ H.edges # {}
    /\ \E e \in G.edges \ H.edges : e[1] \in H.nodes \/ e[2] \in H.nodes

\* u and v are joined by an edge in one direction or the other
Linked(g, u, v) == <<u, v>> \in g.edges \/ <<v, u>> \in g.edges

\* C4: in FOCUS mode with a focal node of the graph, the visible set contains
\* the focal node; not expanded, it is the focal node with its predecessors
\* and successors; expanded, it is every node within two hops of the focal
\* node along edges of either direction, a superset of the non-expanded set.
C4_EgoNetwork ==
    (pc = "filtered" /\ view_mode = FOCUS /\ selected_node \in G.nodes) =>
        LET direct == {selected_node} \cup {n \in G.nodes : Linked(G, selected_node, n)}
            twohop == direct \cup {n \in G.nodes : \E m \in G.nodes :
                                      Linked(G, selected_node, m) /\ Linked(G, m, n)}
        IN /\ outcome = "ok"
           /\ selected_node \in H.nodes
           /\ ~expand_neighbors => H.nodes = direct
           /\ expand_neighbors => (H.nodes = twohop /\ direct \subseteq H.nodes)

\* the expansion added a node that is two hops away against the direction of
\* an edge
C4_Witness ==
    /\ pc = "filtered"
    /\ view_mode = FOCUS
    /\ selected_node \in G.nodes
    /\ expand_neighbors
    /\ \E n \in H.nodes : n # selected_node /\ ~Linked(G, selected_node, n)
    /\ \E m \in G.nodes, n \in G.nodes :
          /\ <<selected_node, m>> \in G.edges
          /\ <<n, m>> \in G.edges
          /\ n # selected_node
          /\ n # m
          /\ ~Linked(G, selected_node, n)

\* C5: in SEL_COMM mode with a focal node of the graph and a partition of the
\* graph's nodes, the visible nodes are exactly the nodes with the focal
\* node's community id, with the edges of the graph among them only.
C5_SelectedCommunity ==
    (pc = "filtered" /\ view_mode = SEL_COMM /\ selected_node \in G.nodes) =>
        /\ outcome = "ok"
        /\ selected_node \in H.nodes
        /\ \A n \in G.nodes : n \in H.nodes <=> partition[n] = partition[selected_node]
        /\ H.nodes \subseteq G.nodes
        /\ \A e \in G.edges :
              e \in H.edges <=> (partition[e[1]] = partition[selected_node]
                                 /\ partition[e[2]] = partition[selected_node])
        /\ H.edges \subseteq G.edges

\* a community of two nodes, with an id above 0, in a graph of three, and an
\* edge to the third node left out
C5_Witness ==
    /\ pc = "filtered"
    /\ view_mode = SEL_COMM
    /\ selected_node \in G.nodes
    /\ partition[selected_node] > 0
    /\ Cardinality(G.nodes) = 3
    /\ Cardinality(H.nodes) = 2
    /\ G.edges \ H.edges # {}

\* no edge joins a non-empty proper part of the nodes to the rest
Disconnected(g) ==
    \E S \in SUBSET g.nodes :
        /\ S # {}
        /\ S # g.nodes
        /\ \A e \in g.edges : (e[1] \in S) <=> (e[2] \in S)

\* C7 as stated: the diameter line is n/d whenever the graph is disconnected or
\* has fewer than 2 nodes, a number otherwise.
C7_NotComputableBelowTwoNodes ==
    pc = "measured" =>
        /\ outcome = "ok"
        /\ (Disconnected(G) \/ Cardinality(G.nodes) < 2) => diameter_md = NotComputable
        /\ ~(Disconnected(G) \/ Cardinality(G.nodes) < 2) => diameter_md.computable

\* C7, amended: the diameter line never raises; it is n/d whenever the graph is
\* disconnected or has no node, and a number otherwise, which is 0 for a
\* graph of a single node.
C7_NotComputableWhenDisconnectedOrEmpty ==
    pc = "measured" =>
        /\ outcome = "ok"
        /\ (Disconnected(G) \/ G.nodes = {}) => diameter_md = NotComputable
        /\ ~(Disconnected(G) \/ G.nodes = {}) => diameter_md.computable
        /\ Cardinality(G.nodes) = 1 => diameter_md = [computable |-> TRUE, value |-> 0]
        /\ diameter_md.computable => diameter_md.value \in 0..(Cardinality(G.nodes) - 1)

\* the diameter of a disconnected graph (two components) was reported as n/d
C7_Witness ==
    /\ pc = "measured"
    /\ Disconnected(G)
    /\ G.edges # {}
    /\ diameter_md = NotComputable

---------------------------------------------------------------------------
(* Properties of the application, under Spec *)

\* the run that made the current state got past lines 131-134 and built a graph
Displayed == pc = "app" /\ outcome \notin {"none", "TypeError"}

\* C8: a run of main that appends a row adds exactly one record to the
\* session table, and every run that builds a graph builds it (with its
\* partition) from the session table as it was when the run began: the row
\* appended in a run is not in that run's graph, and is in the table the
\* next run builds from.
C8_AppendLeavesDisplayedGraph ==
    [][(pc = "app" /\ outcome' # "TypeError") =>
          /\ has_df => df' = session_df
          /\ ~has_df => df' \in DataFileTables
          /\ G'.nodes = all_names(df')
          /\ G'.edges = PairsOf(df')
          /\ DOMAIN partition' = G'.nodes
          /\ \/ session_df' = df'
             \/ /\ Len(session_df') = Len(df') + 1
                /\ SubSeq(session_df', 1, Len(df')) = df'
                /\ session_df'[Len(session_df')][PARENT_COL] \in AppIds
                /\ session_df'[Len(session_df')][CHILD_COL] \in AppIds]_vars

\* a run appended a row whose child is a new node, and the graph it displayed
\* does not have that node
C8_Witness ==
    /\ Displayed
    /\ outcome = "ok"
    /\ Len(df) >= 1
    /\ Len(session_df) = Len(df) + 1
    /\ session_df[Len(session_df)][CHILD_COL] \notin G.nodes
    /\ G.nodes = all_names(df)

\* C9: after a run in which a file was uploaded, the run has not failed, and
\* the graph and partition it displayed are built from the session table.
C9_UploadEndsWithGraphOfUploadedTable ==
    (pc = "app" /\ uploaded_file) =>
        /\ outcome = "ok"
        /\ df = session_df
        /\ G.nodes = all_names(session_df)
        /\ G.edges = PairsOf(session_df)

====
